---- MODULE Spec2Model ----
(***************************************************************************)
(* The content script of the autofill extension (the Page Executor): the   *)
(* chrome.runtime.onMessage listener that answers get_html with the        *)
(* serialized document body and applies an execute_actions batch to the    *)
(* live document.  The listener runs on the page's single-threaded event   *)
(* loop; the only foreign code that runs inside it is the page's own event *)
(* handlers, called synchronously by el.dispatchEvent.                     *)
(***************************************************************************)
EXTENDS Integers, Sequences, FiniteSets, TLC

(* ------------------------------ bounds --------------------------------- *)
\* the times the user opens the popup or clicks Upload or Start, in all
MaxUserActions == 3
\* the length of the actions list the server returns
MaxActions == 1
\* tasks the listener is given in one run, over all its batches
MaxTasks == 2
\* document mutations made by the page itself (handlers, scripts, the user)
MaxPageMutations == 1

(* --------------------------- the document ------------------------------ *)
\* the form controls of the page, in document order
DocOrder == <<"fname", "consent", "optA", "optB">>
ElemIds == {DocOrder[i] : i \in 1..Len(DocOrder)}

\* the control kind of each element (its type attribute)
Kind(e) == CASE e = "fname" -> "text"
             [] e = "consent" -> "checkbox"
             [] OTHER -> "radio"

\* the radio group (name attribute) of an element
Group(e) == IF Kind(e) = "radio" THEN "opt" ELSE e

null == "null"

\* strings a task's value may carry
Values == {"true", "True", "1", ""}
\* task.type: the three the listener knows, one it does not, and absent
undefined == "undefined"
Types == {"checkbox", "radio", "text", "select", undefined}
\* selector strings: by id, by name (matches both radio buttons), one that
\* matches nothing, one that is no CSS selector
InvalidSelectors == {"#["}
Selectors == {"#fname", "#consent", "[name=opt]", "#missing"} \cup InvalidSelectors

\* the elements a valid selector matches, wherever they are
Matches(sel) == CASE sel = "#fname" -> {"fname"}
                  [] sel = "#consent" -> {"consent"}
                  [] sel = "[name=opt]" -> {"optA", "optB"}
                  [] OTHER -> {}

\* document.querySelector on a valid selector: the first matching element of
\* the document in document order, or null
querySelector(d, sel) ==
    LET hits == {i \in 1..Len(DocOrder) :
                    d[DocOrder[i]].present /\ DocOrder[i] \in Matches(sel)}
    IN IF hits = {} THEN null
       ELSE DocOrder[CHOOSE i \in hits : \A j \in hits : i <= j]

\* el.checked = b.  Checking a radio button unchecks the other radio buttons
\* of its group that are in the document.
SetChecked(d, e, b) ==
    [x \in ElemIds |->
        IF x = e THEN [d[x] EXCEPT !.checked = b]
        ELSE IF b /\ Kind(e) = "radio" /\ Kind(x) = "radio" /\ Group(x) = Group(e)
                /\ d[x].present /\ d[e].present
             THEN [d[x] EXCEPT !.checked = FALSE]
             ELSE d[x]]

\* el.value = v
SetValue(d, e, v) == [d EXCEPT ![e].value = v]

\* the value content attribute of an element: a checkbox or radio keeps its
\* value in the attribute, a text control keeps the markup's default
ValueAttr(d, e) == IF Kind(e) \in {"checkbox", "radio"} THEN d[e].value ELSE ""

\* document.body.outerHTML: the markup of the elements in the document, in
\* document order, each with its kind and content attributes
RECURSIVE Serialize(_, _)
Serialize(d, i) ==
    IF i > Len(DocOrder) THEN <<>>
    ELSE LET e == DocOrder[i]
         IN (IF d[e].present THEN << <<e, Kind(e), ValueAttr(d, e)>> >> ELSE <<>>)
            \o Serialize(d, i + 1)

outerHTML(d) == Serialize(d, 1)

(* ----------------------------- the state ------------------------------- *)
VARIABLES
    doc,        \* the live document: element -> [present, value, checked]
    pc,         \* where the listener is
    request,    \* the message being handled
    idx,        \* tasks of request.data the forEach has finished
    task,       \* the task of the latest iteration
    el,         \* the element that task's selector resolved to
    count,      \* the listener's counter
    events,     \* events dispatched in the latest iteration, in order
    dispatched, \* events dispatched since the request arrived
    resolved,   \* tasks of this batch whose selector resolved to an element
    response,   \* what sendResponse was last called with for this request
    sent,       \* calls of sendResponse for this request
    raised,     \* the listener ended this request by an uncaught exception
    snapshot,   \* the last get_html answer, while the document is as it was
    nTasks,     \* tasks given to the listener so far, over all batches
    nMutations  \* page mutations so far

\* the state of the content script and its page
pageVars == <<doc, pc, request, idx, task, el, count, events, dispatched, resolved,
              response, sent, raised, snapshot, nTasks, nMutations>>

\* the state of one call of generateUUID
VARIABLES
    seed,       \* the first value Math.random() * 16 | 0 takes in the call
    stride,     \* the step from one such value to the next
    uuid        \* the string the call returned, as a sequence of characters

uuidVars == <<seed, stride, uuid>>

\* one batch run to its end in the order given and in the reverse order
VARIABLES
    batch,      \* request.data, a sequence of tasks
    forward,    \* the outcome of the listener on batch
    backward    \* the outcome of the listener on batch reversed

batchVars == <<batch, forward, backward>>

\* the popup (popup.js) and the extension's local storage
VARIABLES
    storage,        \* chrome.storage.local: the user_id stored, NoId when none
    popup,          \* "closed", "loading" (storage.get not yet answered), "ready"
    sessions,       \* the number of times the popup was opened
    userIdInput,    \* userIdInput.value
    fileChosen,     \* cvFileInput.files[0] is a file
    startDisabled,  \* startBtn.disabled
    uploadStatus,   \* uploadStatus.textContent
    uploading,      \* the user_id of the upload_cv requests not yet settled
    agentStatus,    \* agentStatus.textContent
    flows,          \* the runs of the Start handler of this popup, by click
    nUser           \* the times the user opened the popup or clicked so far

popupVars == <<storage, popup, sessions, userIdInput, fileChosen, startDisabled,
               uploadStatus, uploading, agentStatus, flows, nUser>>

\* the state outside the content script and its page
otherVars == <<uuidVars, batchVars, popupVars>>

vars == <<pageVars, otherVars>>

NoRequest == [action |-> "none"]
\* request.data: a list of tasks, of which the model keeps the length and
\* draws each task when the forEach reaches it, or no data at all
NoData == [defined |-> FALSE, length |-> 0]
Datas(most) == {[defined |-> TRUE, length |-> n] : n \in 0..most} \cup {NoData}
NoTask == [selector |-> "", type |-> undefined, value |-> ""]
NoResponse == [kind |-> "none"]
NoHtml == << <<"none", "none", "none">> >>
Tasks == [selector : Selectors, type : Types, value : Values]

\* the answer of the last get_html, and whether the get_html before it gave
\* an answer to the same document; forgotten when the document changes
NoSnapshot == [html |-> NoHtml, repeated |-> FALSE]
Keep(d) == IF d = doc THEN snapshot ELSE NoSnapshot

\* the content script is injected into the loaded page
PageInit ==
    /\ doc = [e \in ElemIds |->
                 [present |-> TRUE, value |-> "", checked |-> e \in {"consent", "optB"}]]
    /\ pc = "idle"
    /\ request = NoRequest
    /\ idx = 0
    /\ task = NoTask
    /\ el = null
    /\ count = 0
    /\ events = <<>>
    /\ dispatched = 0
    /\ resolved = 0
    /\ response = NoResponse
    /\ sent = 0
    /\ raised = FALSE
    /\ snapshot = NoSnapshot
    /\ nTasks = 0
    /\ nMutations = 0

\* no call of generateUUID is looked at
UuidOff == seed = 0 /\ stride = 0 /\ uuid = <<>>

\* no batch is looked at as a whole
NoRun == [ran |-> FALSE, doc |-> <<>>, count |-> 0, raised |-> FALSE, els |-> <<>>]
BatchOff == batch = <<>> /\ forward = NoRun /\ backward = NoRun

\* user ids: none, one typed by the user, the one generated in session k
NoId == <<"", 0>>
Typed == <<"typed", 0>>
Uuid(k) == <<"uuid", k>>

\* a status line; n is the number shown in it, 0 when it shows none
Status(text) == [text |-> text, n |-> 0]

\* the extension is installed and its popup has never been opened
PopupOff ==
    /\ storage = NoId
    /\ popup = "closed"
    /\ sessions = 0
    /\ userIdInput = NoId
    /\ fileChosen = FALSE
    /\ startDisabled = TRUE
    /\ uploadStatus = ""
    /\ uploading = <<>>
    /\ agentStatus = Status("")
    /\ flows = <<>>
    /\ nUser = 0

Init == PageInit /\ UuidOff /\ BatchOff /\ PopupOff

(* ---------------------------- the listener ----------------------------- *)
\* a variant in which a message is handled as soon as it arrives, whatever the
\* listener is doing
ArriveAnytime(req) ==
    /\ request' = req
    /\ idx' = 0 /\ task' = NoTask /\ el' = null
    /\ events' = <<>> /\ dispatched' = 0 /\ resolved' = 0
    /\ raised' = FALSE

\* a message arrives: the listener runs on the page's event loop, so it is
\* called only when no other call of it is running; the per-request state
\* starts afresh
Arrive(req) ==
    /\ pc = "idle"
    /\ request' = req
    /\ idx' = 0 /\ task' = NoTask /\ el' = null
    /\ events' = <<>> /\ dispatched' = 0 /\ resolved' = 0
    /\ raised' = FALSE

\* a variant that reads the controls' live values instead of the markup
HtmlResponseLive(d) ==
    [kind |-> "html",
     html |-> [i \in 1..Len(outerHTML(d)) |->
                 <<outerHTML(d)[i][1], outerHTML(d)[i][2], d[outerHTML(d)[i][1]].value>>]]

\* sendResponse({ html: document.body.outerHTML })
HtmlResponse(d) == [kind |-> "html", html |-> outerHTML(d)]

GetHtml ==
    /\ Arrive([action |-> "get_html"])
    /\ response' = HtmlResponse(doc)
    /\ sent' = 1
    /\ snapshot' = [html |-> response'.html, repeated |-> snapshot # NoSnapshot]
    /\ count' = 0
    /\ pc' = "idle"
    /\ UNCHANGED <<doc, nTasks, nMutations>>

\* a variant whose counter lives outside the listener and is never reset
ExecuteActionsKeepsCount ==
    /\ \E data \in Datas(MaxTasks - nTasks) :
          /\ Arrive([action |-> "execute_actions", data |-> data])
          /\ nTasks' = nTasks + data.length
    /\ count' = count
    /\ response' = NoResponse
    /\ sent' = 0
    /\ pc' = "forEach"
    /\ UNCHANGED <<doc, snapshot, nMutations>>

\* request.action === "execute_actions": let count = 0
ExecuteActions ==
    /\ \E data \in Datas(MaxTasks - nTasks) :
          /\ Arrive([action |-> "execute_actions", data |-> data])
          /\ nTasks' = nTasks + data.length
    /\ count' = 0
    /\ response' = NoResponse
    /\ sent' = 0
    /\ pc' = "forEach"
    /\ UNCHANGED <<doc, snapshot, nMutations>>

\* the listener ends by an uncaught exception: nothing is sent
Throw ==
    /\ raised' = TRUE
    /\ pc' = "idle"

\* request.data.forEach on a request without data: TypeError
DataAbsent ==
    /\ pc = "forEach"
    /\ ~request.data.defined
    /\ Throw
    /\ UNCHANGED <<doc, request, idx, task, el, count, events, dispatched, resolved,
                   response, sent, snapshot, nTasks, nMutations>>

\* the forEach has a next task
HasNext == pc = "forEach" /\ request.data.defined /\ idx < request.data.length

\* a variant that reads the checkbox value by truthiness
ApplyTruthy(d, e, t) ==
    IF t.type = "checkbox" THEN SetChecked(d, e, t.value # "")
    ELSE IF t.type = "radio" THEN (IF t.value = "true" THEN SetChecked(d, e, TRUE) ELSE d)
    ELSE SetValue(d, e, t.value)

\* a variant that treats a radio button like a checkbox
ApplyRadioAssigns(d, e, t) ==
    IF t.type \in {"checkbox", "radio"} THEN SetChecked(d, e, t.value = "true")
    ELSE SetValue(d, e, t.value)

\* a variant that sets the value only for the type "text"
ApplyTextOnly(d, e, t) ==
    IF t.type = "checkbox" THEN SetChecked(d, e, t.value = "true")
    ELSE IF t.type = "radio" THEN (IF t.value = "true" THEN SetChecked(d, e, TRUE) ELSE d)
    ELSE IF t.type = "text" THEN SetValue(d, e, t.value)
    ELSE d

\* the type dispatch of one task on its element
Apply(d, e, t) ==
    IF t.type = "checkbox" THEN SetChecked(d, e, t.value = "true")
    ELSE IF t.type = "radio" THEN (IF t.value = "true" THEN SetChecked(d, e, TRUE) ELSE d)
    ELSE SetValue(d, e, t.value)

\* document.querySelector(task.selector) finds an element and the task is
\* applied to it; no foreign code runs between the lookup and the write
Resolve ==
    /\ HasNext
    /\ \E t \in Tasks :
          /\ t.selector \notin InvalidSelectors
          /\ querySelector(doc, t.selector) # null
          /\ task' = t
          /\ el' = querySelector(doc, t.selector)
          /\ doc' = Apply(doc, el', t)
    /\ snapshot' = Keep(doc')
    /\ events' = <<>>
    /\ resolved' = resolved + 1
    /\ pc' = "input"
    /\ UNCHANGED <<request, idx, count, dispatched, response, sent, raised,
                   nTasks, nMutations>>

\* a variant with count++ after the if, not in it
SkipCounts ==
    /\ pc = "forEach" /\ request.data.defined /\ idx < request.data.length
    /\ \E t \in Tasks :
          /\ t.selector \notin InvalidSelectors
          /\ querySelector(doc, t.selector) = null
          /\ task' = t
    /\ el' = null
    /\ events' = <<>>
    /\ idx' = idx + 1
    /\ count' = count + 1
    /\ pc' = "forEach"
    /\ UNCHANGED <<doc, request, dispatched, resolved, response, sent, raised,
                   snapshot, nTasks, nMutations>>

\* document.querySelector(task.selector) finds nothing: if (el) is not taken
Skip ==
    /\ HasNext
    /\ \E t \in Tasks :
          /\ t.selector \notin InvalidSelectors
          /\ querySelector(doc, t.selector) = null
          /\ task' = t
    /\ el' = null
    /\ events' = <<>>
    /\ idx' = idx + 1
    /\ pc' = "forEach"
    /\ UNCHANGED <<doc, request, count, dispatched, resolved, response, sent, raised,
                   snapshot, nTasks, nMutations>>

\* document.querySelector(task.selector) on a string that is no selector:
\* SyntaxError, which nothing catches
SelectorThrows ==
    /\ HasNext
    /\ \E t \in Tasks :
          /\ t.selector \in InvalidSelectors
          /\ task' = t
    /\ el' = null
    /\ events' = <<>>
    /\ Throw
    /\ UNCHANGED <<doc, request, idx, count, dispatched, resolved, response, sent,
                   snapshot, nTasks, nMutations>>

\* what the page's handlers for an event may do to the document: nothing,
\* throw (the browser reports the exception, it does not leave
\* dispatchEvent), take the control out of the document, or put the value
\* the page holds for the control back
HandlerOutcomes == {"none", "throws", "removes", "rewrites"}

HandlerEffect(d, e, h) ==
    CASE h = "removes" -> [d EXCEPT ![e].present = FALSE]
      [] h = "rewrites" -> [d EXCEPT ![e].value = ""]
      [] OTHER -> d

\* a variant without the option: new Event(name)
EventNoBubbles(name, target) == [type |-> name, target |-> target, bubbles |-> FALSE]

\* new Event(name, { bubbles: true })
Event(name, target) == [type |-> name, target |-> target, bubbles |-> TRUE]

\* el.dispatchEvent(new Event(name, { bubbles: true })): the event is
\* dispatched and the page's handlers run before the call returns
Dispatch(name) ==
    /\ events' = Append(events, Event(name, el))
    /\ dispatched' = dispatched + 1
    /\ \E h \in HandlerOutcomes :
          /\ doc' = HandlerEffect(doc, el, h)
          /\ nMutations' = IF doc' = doc THEN nMutations ELSE nMutations + 1
          /\ nMutations' <= MaxPageMutations
    /\ snapshot' = Keep(doc')

DispatchInput ==
    /\ pc = "input"
    /\ Dispatch("input")
    /\ pc' = "change"
    /\ UNCHANGED <<request, idx, task, el, count, resolved, response, sent, raised,
                   nTasks>>

DispatchChange ==
    /\ pc = "change"
    /\ Dispatch("change")
    /\ pc' = "blur"
    /\ UNCHANGED <<request, idx, task, el, count, resolved, response, sent, raised,
                   nTasks>>

\* the third dispatch, then count++, and the iteration ends
DispatchBlur ==
    /\ pc = "blur"
    /\ Dispatch("blur")
    /\ count' = count + 1
    /\ idx' = idx + 1
    /\ pc' = "forEach"
    /\ UNCHANGED <<request, task, el, resolved, response, sent, raised, nTasks>>

\* a variant that reports the length of the batch
DoneResponseBatch(c) ==
    [kind |-> "done", status |-> "done", count |-> request.data.length]

\* sendResponse({ status: "done", count: count })
DoneResponse(c) == [kind |-> "done", status |-> "done", count |-> c]

SendDone ==
    /\ pc = "forEach"
    /\ request.data.defined
    /\ idx = request.data.length
    /\ response' = DoneResponse(count)
    /\ sent' = sent + 1
    /\ pc' = "idle"
    /\ UNCHANGED <<doc, request, idx, task, el, count, events, dispatched, resolved,
                   raised, snapshot, nTasks, nMutations>>

(* ------------------------------ the page ------------------------------- *)
\* between two messages the page changes its own document
PageMutate ==
    /\ pc = "idle"
    /\ nMutations < MaxPageMutations
    /\ \E e \in ElemIds, h \in {"removes", "rewrites"} :
          /\ doc' = HandlerEffect(doc, e, h)
          /\ doc' # doc
    /\ nMutations' = nMutations + 1
    /\ snapshot' = NoSnapshot
    /\ UNCHANGED <<pc, request, idx, task, el, count, events, dispatched, resolved,
                   response, sent, raised, nTasks>>

\* the steps of the content script and of its page
Next ==
    \/ GetHtml /\ UNCHANGED otherVars
    \/ ExecuteActions /\ UNCHANGED otherVars
    \/ DataAbsent /\ UNCHANGED otherVars
    \/ Resolve /\ UNCHANGED otherVars
    \/ Skip /\ UNCHANGED otherVars
    \/ SelectorThrows /\ UNCHANGED otherVars
    \/ DispatchInput /\ UNCHANGED otherVars
    \/ DispatchChange /\ UNCHANGED otherVars
    \/ DispatchBlur /\ UNCHANGED otherVars
    \/ SendDone /\ UNCHANGED otherVars
    \/ PageMutate /\ UNCHANGED otherVars

Spec == Init /\ [][Next]_vars

(* ----------------------- a batch as a whole ---------------------------- *)
\* the length of the batches run as a whole
BatchLen == 2

\* request.data.forEach(task => {...}) from task i on, on a page without
\* handlers of its own: r.doc is the document, r.count the counter, r.els the
\* element (or null) querySelector gave for each task so far; an invalid
\* selector ends the call with an exception
RECURSIVE forEach(_, _, _)
forEach(r, ts, i) ==
    IF i > Len(ts) THEN r
    ELSE IF ts[i].selector \in InvalidSelectors THEN [r EXCEPT !.raised = TRUE]
    ELSE LET e == querySelector(r.doc, ts[i].selector)
         IN IF e = null
            THEN forEach([r EXCEPT !.els = Append(@, null)], ts, i + 1)
            ELSE forEach([r EXCEPT !.doc = Apply(@, e, ts[i]),
                                   !.count = @ + 1,
                                   !.els = Append(@, e)], ts, i + 1)

\* the else-if branch of the listener for execute_actions, from let count = 0
RunListener(d, ts) ==
    forEach([ran |-> TRUE, doc |-> d, count |-> 0, raised |-> FALSE, els |-> <<>>], ts, 1)

Reverse(ts) == [i \in 1..Len(ts) |-> ts[Len(ts) + 1 - i]]

\* a batch arrives for the page as loaded
BatchInit ==
    /\ batch \in [1..BatchLen -> Tasks]
    /\ forward = NoRun
    /\ backward = NoRun

RunForward ==
    /\ ~forward.ran
    /\ forward' = RunListener(doc, batch)
    /\ UNCHANGED <<batch, backward>>

RunBackward ==
    /\ ~backward.ran
    /\ backward' = RunListener(doc, Reverse(batch))
    /\ UNCHANGED <<batch, forward>>

InitBatch == PageInit /\ UuidOff /\ BatchInit /\ PopupOff

NextBatch ==
    \/ RunForward /\ UNCHANGED <<pageVars, uuidVars, popupVars>>
    \/ RunBackward /\ UNCHANGED <<pageVars, uuidVars, popupVars>>

SpecBatch == InitBatch /\ [][NextBatch]_vars

(* --------------------------- generateUUID ------------------------------ *)
\* 'xxxxxxxx-xxxx-4xxx-yxxx-xxxxxxxxxxxx', character by character
Template ==
    << "x", "x", "x", "x", "x", "x", "x", "x", "-", "x", "x", "x", "x", "-",
       "4", "x", "x", "x", "-", "y", "x", "x", "x", "-",
       "x", "x", "x", "x", "x", "x", "x", "x", "x", "x", "x", "x" >>

\* the i-th value of Math.random() * 16 | 0 in a call: an integer of 0..15.
\* The calls looked at are those whose values go round 0..15 from seed in
\* steps of stride.
Random16(sd, st, i) == (sd + st * (i - 1)) % 16

\* v.toString(16) for v in 0..15
HexDigits == << "0", "1", "2", "3", "4", "5", "6", "7", "8", "9", "a", "b", "c", "d", "e", "f" >>
toString16(v) == HexDigits[v + 1]

\* a variant that forgets the variant bits
NibbleNoVariant(c, r) == r

\* v = c == 'x' ? r : (r & 0x3 | 0x8)
Nibble(c, r) == IF c = "x" THEN r ELSE (r % 4) + 8

\* .replace(/[xy]/g, function(c) {...}): every x and y of the template, from
\* left to right, is replaced by the digit of the next random value; k counts
\* the calls of the function so far
RECURSIVE Replace(_, _, _, _)
Replace(i, k, sd, st) ==
    IF i > Len(Template) THEN <<>>
    ELSE IF Template[i] \in {"x", "y"}
         THEN <<toString16(Nibble(Template[i], Random16(sd, st, k + 1)))>>
                 \o Replace(i + 1, k + 1, sd, st)
         ELSE <<Template[i]>> \o Replace(i + 1, k, sd, st)

generateUUID(sd, st) == Replace(1, 0, sd, st)

\* a call of generateUUID begins, with any random values of the family
UuidInit ==
    /\ seed \in 0..15
    /\ stride \in 0..15
    /\ uuid = <<>>

Generate ==
    /\ uuid = <<>>
    /\ uuid' = generateUUID(seed, stride)
    /\ UNCHANGED <<seed, stride>>

InitUUID == PageInit /\ UuidInit /\ BatchOff /\ PopupOff

NextUUID == Generate /\ UNCHANGED <<pageVars, batchVars, popupVars>>

SpecUUID == InitUUID /\ [][NextUUID]_vars

(* ------------------------------ the popup ------------------------------ *)
\* the popup is opened: a new document, and DOMContentLoaded asks the storage
\* for user_id.  Whether the Start button of the markup is disabled is not
\* decided by popup.js: both are taken.
OpenPopup ==
    /\ popup = "closed"
    /\ nUser < MaxUserActions
    /\ nUser' = nUser + 1
    /\ popup' = "loading"
    /\ sessions' = sessions + 1
    /\ startDisabled' \in BOOLEAN
    /\ UNCHANGED <<storage, userIdInput, fileChosen, uploadStatus, uploading,
                   agentStatus, flows>>

\* the popup is closed: its document, its pending callbacks and promises go
ClosePopup ==
    /\ popup # "closed"
    /\ popup' = "closed"
    /\ userIdInput' = NoId
    /\ fileChosen' = FALSE
    /\ startDisabled' = TRUE
    /\ uploadStatus' = ""
    /\ uploading' = <<>>
    /\ agentStatus' = Status("")
    /\ flows' = <<>>
    /\ UNCHANGED <<storage, sessions, nUser>>

\* a variant that generates and stores an identifier in every session
LoadCallbackAlways ==
    /\ popup = "loading"
    /\ popup' = "ready"
    /\ storage' = Uuid(sessions)
    /\ userIdInput' = Uuid(sessions)
    /\ UNCHANGED <<sessions, fileChosen, startDisabled, uploadStatus, uploading,
                   agentStatus, flows, nUser>>

\* the callback of chrome.storage.local.get(['user_id'], ...)
LoadCallback ==
    /\ popup = "loading"
    /\ popup' = "ready"
    /\ IF storage # NoId
       THEN /\ userIdInput' = storage
            /\ UNCHANGED storage
       ELSE /\ storage' = Uuid(sessions)
            /\ userIdInput' = Uuid(sessions)
    /\ UNCHANGED <<sessions, fileChosen, startDisabled, uploadStatus, uploading,
                   agentStatus, flows, nUser>>

\* the user types an identifier of their own into the User ID field
UserEdits ==
    /\ popup # "closed"
    /\ userIdInput # Typed
    /\ userIdInput' = Typed
    /\ UNCHANGED <<storage, popup, sessions, fileChosen, startDisabled, uploadStatus,
                   uploading, agentStatus, flows, nUser>>

\* the user selects a file
ChooseFile ==
    /\ popup # "closed"
    /\ ~fileChosen
    /\ fileChosen' = TRUE
    /\ UNCHANGED <<storage, popup, sessions, userIdInput, startDisabled, uploadStatus,
                   uploading, agentStatus, flows, nUser>>

\* uploadBtn click, up to the await of fetch(upload_cv)
UploadClick ==
    /\ popup # "closed"
    /\ IF userIdInput = NoId \/ ~fileChosen
       THEN /\ uploadStatus' = "Please enter User ID and select a file."
            /\ UNCHANGED <<uploading, nUser>>
       ELSE /\ nUser < MaxUserActions
            /\ nUser' = nUser + 1
            /\ uploadStatus' = "Uploading..."
            /\ uploading' = Append(uploading, userIdInput)
    /\ UNCHANGED <<storage, popup, sessions, userIdInput, fileChosen, startDisabled,
                   agentStatus, flows>>

\* fetch(upload_cv) settles: a success status, another status, or a rejection
UploadSettles ==
    /\ uploading # <<>>
    /\ uploading' = Tail(uploading)
    /\ \E outcome \in {"ok", "notOk", "reject"} :
          CASE outcome = "ok" ->
                  /\ uploadStatus' = "Success: CV Indexed!"
                  /\ startDisabled' = FALSE
            [] outcome = "notOk" ->
                  /\ uploadStatus' = "Error uploading."
                  /\ UNCHANGED startDisabled
            [] outcome = "reject" ->
                  /\ uploadStatus' = "Connection Error: Is server running?"
                  /\ UNCHANGED startDisabled
    /\ UNCHANGED <<storage, popup, sessions, userIdInput, fileChosen, agentStatus,
                   flows, nUser>>

\* a run of the Start handler: where it is, the userId it read, the outcomes
\* it saw, the requests it sent and the last status it wrote
NewFlow(id) ==
    [pc |-> "query", userId |-> id, html |-> "none", fetchRes |-> "none",
     actions |-> "none", n |-> 0, res |-> "none", gets |-> 0, fetches |-> 0,
     executes |-> 0, last |-> "Agent starting..."]

\* startBtn click, up to the await of chrome.tabs.query
StartClick ==
    /\ popup # "closed"
    /\ ~startDisabled
    /\ nUser < MaxUserActions
    /\ nUser' = nUser + 1
    /\ agentStatus' = Status("Agent starting...")
    /\ flows' = Append(flows, NewFlow(userIdInput))
    /\ UNCHANGED <<storage, popup, sessions, userIdInput, fileChosen, startDisabled,
                   uploadStatus, uploading>>

\* chrome.tabs.query answers with the active tab and get_html is sent to it
TabsQueryDone(i) ==
    /\ flows[i].pc = "query"
    /\ flows' = [flows EXCEPT ![i].pc = "get_html", ![i].gets = @ + 1]
    /\ UNCHANGED <<storage, popup, sessions, userIdInput, fileChosen, startDisabled,
                   uploadStatus, uploading, agentStatus, nUser>>

\* what the callback of a get_html message may be called with: a response
\* with html, chrome.runtime.lastError set (no listener in the tab), no
\* response, a response without html
HtmlOutcomes == {"html", "lastError", "noResponse", "noHtml"}

\* a variant that only looks at chrome.runtime.lastError
CannotReadLastError(o) == o = "lastError"

\* chrome.runtime.lastError || !response || !response.html
CannotRead(o) == o \in {"lastError", "noResponse", "noHtml"}

\* the callback of the get_html message, up to the await of
\* fetch(process_page)
GetHtmlCallback(i) ==
    /\ flows[i].pc = "get_html"
    /\ \E o \in HtmlOutcomes :
          IF CannotRead(o)
          THEN /\ agentStatus' = Status("Error: Cannot read page. Refresh?")
               /\ flows' = [flows EXCEPT ![i].pc = "done", ![i].html = o,
                                         ![i].last = agentStatus'.text]
          ELSE /\ agentStatus' = Status("Thinking...")
               /\ flows' = [flows EXCEPT ![i].pc = "fetch", ![i].html = o,
                                         ![i].fetches = @ + 1,
                                         ![i].last = agentStatus'.text]
    /\ UNCHANGED <<storage, popup, sessions, userIdInput, fileChosen, startDisabled,
                   uploadStatus, uploading, nUser>>

\* the catch block
AgentError(i, field, o) ==
    /\ agentStatus' = Status("Agent Error.")
    /\ flows' = [flows EXCEPT ![i].pc = "done", ![i][field] = o,
                              ![i].last = agentStatus'.text]

\* a variant that does not look at apiRes.ok
FetchFailedReject(o) == o = "reject"

\* fetch rejects, or if (!apiRes.ok) throw new Error("API Error")
FetchFailed(o) == o \in {"reject", "notOk"}

\* fetch(process_page) settles, up to the await of apiRes.json()
FetchSettles(i) ==
    /\ flows[i].pc = "fetch"
    /\ \E o \in {"ok", "notOk", "reject"} :
          IF FetchFailed(o)
          THEN AgentError(i, "fetchRes", o)
          ELSE /\ flows' = [flows EXCEPT ![i].pc = "json", ![i].fetchRes = o]
               /\ UNCHANGED agentStatus
    /\ UNCHANGED <<storage, popup, sessions, userIdInput, fileChosen, startDisabled,
                   uploadStatus, uploading, nUser>>

\* a variant that only looks for a missing list
NoActionsAbsent(a, n) == a = "absent"

\* !actions || actions.length === 0
NoActions(a, n) == a = "absent" \/ n = 0

\* apiRes.json() settles: the body does not parse, or it is an object whose
\* actions is absent or a list of n actions; then the rest of the try block
JsonSettles(i) ==
    /\ flows[i].pc = "json"
    /\ \E a \in {"unparsable", "absent", "list"}, n \in 0..MaxActions :
          /\ a # "list" => n = 0
          /\ IF a = "unparsable"
             THEN /\ AgentError(i, "actions", a)
             ELSE IF NoActions(a, n)
             THEN /\ agentStatus' = Status("No fields found to fill.")
                  /\ flows' = [flows EXCEPT ![i].pc = "done", ![i].actions = a,
                                            ![i].n = n,
                                            ![i].last = agentStatus'.text]
             ELSE /\ agentStatus' = [text |-> "Found fields. Filling...", n |-> n]
                  /\ flows' = [flows EXCEPT ![i].pc = "execute", ![i].actions = a,
                                            ![i].n = n,
                                            ![i].executes = @ + 1,
                                            ![i].last = agentStatus'.text]
    /\ UNCHANGED <<storage, popup, sessions, userIdInput, fileChosen, startDisabled,
                   uploadStatus, uploading, nUser>>

\* the callback of the execute_actions message: called with the listener's
\* { status: "done", count } or, when the listener threw or the tab has gone,
\* with nothing
ExecuteCallback(i) ==
    /\ flows[i].pc = "execute"
    /\ \E res \in {"done", "undefined"}, c \in 0..flows[i].n :
          /\ res = "undefined" => c = 0
          /\ IF res = "done"
             THEN /\ agentStatus' = [text |-> "Done! Filled fields.", n |-> c]
                  /\ flows' = [flows EXCEPT ![i].pc = "done", ![i].res = res,
                                            ![i].last = agentStatus'.text]
             ELSE /\ flows' = [flows EXCEPT ![i].pc = "done", ![i].res = res]
                  /\ UNCHANGED agentStatus
    /\ UNCHANGED <<storage, popup, sessions, userIdInput, fileChosen, startDisabled,
                   uploadStatus, uploading, nUser>>

InitPopup == PageInit /\ UuidOff /\ BatchOff /\ PopupOff

NextPopup ==
    \/ OpenPopup /\ UNCHANGED <<pageVars, uuidVars, batchVars>>
    \/ ClosePopup /\ UNCHANGED <<pageVars, uuidVars, batchVars>>
    \/ LoadCallback /\ UNCHANGED <<pageVars, uuidVars, batchVars>>
    \/ UserEdits /\ UNCHANGED <<pageVars, uuidVars, batchVars>>
    \/ ChooseFile /\ UNCHANGED <<pageVars, uuidVars, batchVars>>
    \/ UploadClick /\ UNCHANGED <<pageVars, uuidVars, batchVars>>
    \/ UploadSettles /\ UNCHANGED <<pageVars, uuidVars, batchVars>>
    \/ StartClick /\ UNCHANGED <<pageVars, uuidVars, batchVars>>
    \/ \E i \in 1..Len(flows) : TabsQueryDone(i) /\ UNCHANGED <<pageVars, uuidVars, batchVars>>
    \/ \E i \in 1..Len(flows) : GetHtmlCallback(i) /\ UNCHANGED <<pageVars, uuidVars, batchVars>>
    \/ \E i \in 1..Len(flows) : FetchSettles(i) /\ UNCHANGED <<pageVars, uuidVars, batchVars>>
    \/ \E i \in 1..Len(flows) : JsonSettles(i) /\ UNCHANGED <<pageVars, uuidVars, batchVars>>
    \/ \E i \in 1..Len(flows) : ExecuteCallback(i) /\ UNCHANGED <<pageVars, uuidVars, batchVars>>

SpecPopup == InitPopup /\ [][NextPopup]_vars

(* ------------------------------ the claims ----------------------------- *)
\* the listener is inside an iteration, between the write and count++
InIteration == pc \in {"input", "change", "blur"}

\* the three events an applied task must have dispatched on element e
Expected(e) ==
    << [type |-> "input", target |-> e, bubbles |-> TRUE],
       [type |-> "change", target |-> e, bubbles |-> TRUE],
       [type |-> "blur", target |-> e, bubbles |-> TRUE] >>

\* C1: the count of a response is the number of tasks of the batch whose
\* selector resolved to an element when the task was executed, so it lies
\* between 0 and the length of the batch; while the batch runs the counter
\* is that number less the task in progress
C1_CountIsResolved ==
    /\ response.kind = "done" =>
          /\ response.count = resolved
          /\ 0 <= response.count
          /\ response.count <= request.data.length
    /\ pc # "idle" => count = resolved - (IF InIteration THEN 1 ELSE 0)

\* a batch of two tasks, one applied and one skipped, was answered with 1
C1_Witness ==
    /\ response.kind = "done"
    /\ request.data.length = 2
    /\ response.count = 1

\* C2: right after a checkbox task is applied to its element, the element is
\* checked exactly when the task's value is the string "true"
C2_CheckboxIffTrue ==
    (pc = "input" /\ task.type = "checkbox") =>
        (doc[el].checked <=> task.value = "true")

\* the checkbox that the page had checked was unchecked by the value "True"
C2_Witness ==
    /\ pc = "input"
    /\ task.type = "checkbox"
    /\ task.value = "True"
    /\ el = "consent"
    /\ ~doc["consent"].checked

\* C3: a radio task with the value "true" leaves its element checked; with
\* any other value the element's checked state is what it was before the
\* task; either way the task is counted and its three events are dispatched
C3_RadioOnlySetsTrue ==
    [][/\ (pc = "forEach" /\ pc' = "input" /\ task'.type = "radio") =>
             (IF task'.value = "true" THEN doc'[el'].checked
              ELSE doc'[el'].checked = doc[el'].checked)
       /\ (pc = "blur" /\ pc' # "blur" /\ task.type = "radio") =>
             (count' = count + 1 /\ events' = Expected(el))]_vars

\* a radio button checked by one task stayed checked under a later radio
\* task with another value, which was counted
C3_Witness ==
    /\ pc = "forEach"
    /\ task.type = "radio"
    /\ task.value = "True"
    /\ el = "optA"
    /\ doc["optA"].checked
    /\ count = 2
    /\ events = Expected("optA")

\* C4: a task whose type is neither "checkbox" nor "radio" leaves its
\* element's value equal to the task's value and its checked state as it was
C4_DefaultSetsValue ==
    [][(pc = "forEach" /\ pc' = "input" /\ task'.type \notin {"checkbox", "radio"}) =>
           /\ doc'[el'].value = task'.value
           /\ doc'[el'].checked = doc[el'].checked]_vars

\* a task without a type wrote its value to the checked checkbox
C4_Witness ==
    /\ pc = "input"
    /\ task.type = undefined
    /\ task.value = "1"
    /\ el = "consent"
    /\ doc["consent"].value = "1"
    /\ doc["consent"].checked

\* C5: an applied task dispatches input, change and blur on its element, once
\* each and in this order, each bubbling, after its write and before the next
\* lookup; a skipped task dispatches nothing
C5_ThreeEventsInOrder ==
    /\ pc = "input" => events = <<>>
    /\ pc = "change" => events = SubSeq(Expected(el), 1, 1)
    /\ pc = "blur" => events = SubSeq(Expected(el), 1, 2)
    /\ pc \in {"forEach", "idle"} => events = (IF el = null THEN <<>> ELSE Expected(el))
    /\ dispatched = 3 * count + (IF InIteration THEN Len(events) ELSE 0)

\* two tasks were applied, the second to an element a handler then removed
C5_Witness ==
    /\ pc = "forEach"
    /\ count = 2
    /\ dispatched = 6
    /\ el # null
    /\ ~doc[el].present
    /\ events = Expected(el)

\* C6: a task whose selector matches no element changes no element,
\* dispatches nothing, leaves the counter alone and lets the forEach go on to
\* the next task; a response is sent only when every task has been reached
C6_SkipChangesNothing ==
    /\ [][(HasNext /\ task'.selector \notin InvalidSelectors
             /\ querySelector(doc, task'.selector) = null) =>
            /\ doc' = doc
            /\ dispatched' = dispatched
            /\ events' = <<>>
            /\ count' = count
            /\ idx' = idx + 1
            /\ pc' = "forEach"
            /\ ~raised'
            /\ sent' = sent]_vars
    /\ [](response.kind = "done" => idx = request.data.length)

\* the second task of a batch was skipped and the first one's write stands
C6_Witness ==
    /\ pc = "forEach"
    /\ idx = 2
    /\ count = 1
    /\ el = null
    /\ task.selector = "#missing"
    /\ doc["fname"].value = "1"

\* C7 as stated: a task whose selector is no CSS selector is skipped like a
\* lookup miss, the forEach goes on and the batch is answered
C7_InvalidSelectorIsSkipped ==
    task.selector \in InvalidSelectors =>
        /\ ~raised
        /\ pc \in {"forEach", "idle"}
        /\ pc = "idle" => (response = [kind |-> "done", status |-> "done", count |-> count]
                           /\ idx = request.data.length)

\* C8 as stated: the listener never raises, and every execute_actions request
\* it has finished with was answered exactly once, after its last task
C8_NeverRaises ==
    /\ ~raised
    /\ (pc = "idle" /\ request.action = "execute_actions") =>
          (sent = 1 /\ response.kind = "done" /\ idx = request.data.length)

\* a step of the listener on an empty batch
EmptyBatchStep ==
    /\ request'.action = "execute_actions"
    /\ request'.data.defined
    /\ request'.data.length = 0
    /\ pc' # pc

\* C9: an empty batch is answered {status: "done", count: 0}, changes no
\* element and dispatches no event
C9_EmptyBatch ==
    [][EmptyBatchStep =>
          /\ doc' = doc
          /\ dispatched' = 0
          /\ events' = <<>>
          /\ pc' = "idle" =>
                (response' = [kind |-> "done", status |-> "done", count |-> 0]
                 /\ sent' = 1)]_vars

\* an empty batch was answered after an earlier batch had changed the page
C9_Witness ==
    /\ pc = "idle"
    /\ request.action = "execute_actions"
    /\ request.data.defined
    /\ request.data.length = 0
    /\ response.kind = "done"
    /\ doc["fname"].value = "1"

\* a get_html message is handled
GetHtmlStep ==
    /\ pc = "idle"
    /\ request'.action = "get_html"
    /\ nMutations' = nMutations

\* C10: get_html changes no element and dispatches no event, its answer is
\* the serialized body of the document, and it is the answer of the get_html
\* before it when the document was not changed in between
C10_GetHtmlReadOnly ==
    [][GetHtmlStep =>
          /\ doc' = doc
          /\ dispatched' = 0
          /\ events' = <<>>
          /\ response' = [kind |-> "html", html |-> outerHTML(doc)]
          /\ sent' = 1
          /\ snapshot.html # NoHtml => response'.html = snapshot.html]_vars

\* two get_html in a row were answered, on a page a batch had written to
C10_Witness ==
    /\ request.action = "get_html"
    /\ snapshot.repeated
    /\ response.html = snapshot.html
    /\ doc["fname"].value = "1"
    /\ ~doc["optA"].present

\* the runs of the Start handler of the open popup
Flows == {flows[i] : i \in 1..Len(flows)}

\* C11: a flow sends execute_actions, and once only, only after its get_html
\* was answered with html and the server returned a list of at least one
\* action; a flow whose actions are absent or empty is over with the status
\* "No fields found to fill." and has sent no execute_actions
C11_ExecuteOnlyWithActions ==
    \A f \in Flows :
        /\ f.executes > 0 =>
              /\ f.executes = 1
              /\ f.html = "html"
              /\ f.fetchRes = "ok"
              /\ f.actions = "list"
              /\ f.n > 0
        /\ (f.actions = "absent" \/ (f.actions = "list" /\ f.n = 0)) =>
              /\ f.pc = "done"
              /\ f.executes = 0
              /\ f.last = "No fields found to fill."

\* one flow has sent execute_actions for its list, another got an empty list
C11_Witness ==
    /\ \E f \in Flows : f.executes = 1 /\ f.n = 1 /\ f.pc = "execute"
    /\ \E f \in Flows : f.actions = "list" /\ f.n = 0 /\ f.pc = "done"
    /\ agentStatus.text = "No fields found to fill."

\* a flow has a request to the content script in flight
InFlight(f) == f.pc \in {"get_html", "execute"}

\* C12: at most one get_html or execute_actions request is in flight at any
\* time, and while a flow has one in flight every other flow of the popup is
\* over, whatever the Start clicks
C12_OneRequestInFlight ==
    \A i, j \in 1..Len(flows) :
        (i # j /\ InFlight(flows[i])) => flows[j].pc = "done"

\* the statuses a flow may end on
TerminalStatus ==
    {"Done! Filled fields.", "No fields found to fill.",
     "Error: Cannot read page. Refresh?", "Agent Error."}

\* C13: once every flow of the popup is over the status shown is a terminal
\* one (Done, No fields found, Cannot read page, Agent Error), also when
\* execute_actions was not answered
C13_EndsInTerminalStatus ==
    (flows # <<>> /\ \A f \in Flows : f.pc = "done") =>
        agentStatus.text \in TerminalStatus

\* C14: a flow whose get_html failed (delivery error, no response, response
\* without html) is over with the status "Error: Cannot read page. Refresh?":
\* it sent get_html once, called the server never and sent no execute_actions
C14_CannotReadPage ==
    \A f \in Flows :
        f.html \in {"lastError", "noResponse", "noHtml"} =>
            /\ f.pc = "done"
            /\ f.last = "Error: Cannot read page. Refresh?"
            /\ f.gets = 1
            /\ f.fetches = 0
            /\ f.executes = 0

\* a flow got a response without html and the popup shows the error
C14_Witness ==
    /\ \E f \in Flows : f.html = "noHtml" /\ f.pc = "done"
    /\ \E f \in Flows : f.html = "lastError" /\ f.pc = "done"
    /\ agentStatus.text = "Error: Cannot read page. Refresh?"

\* C15: a flow whose call of the server failed (rejected fetch, status not
\* ok, body that does not parse) is over with the status "Agent Error.": it
\* sent no execute_actions and called the server once; no flow calls the
\* server twice
C15_AgentError ==
    \A f \in Flows :
        /\ f.fetches <= 1
        /\ (f.fetchRes \in {"reject", "notOk"} \/ f.actions = "unparsable") =>
              /\ f.pc = "done"
              /\ f.last = "Agent Error."
              /\ f.fetches = 1
              /\ f.executes = 0

\* one flow got a status that is not ok, another a body that does not parse
C15_Witness ==
    /\ \E f \in Flows : f.fetchRes = "notOk" /\ f.pc = "done"
    /\ \E f \in Flows : f.actions = "unparsable" /\ f.pc = "done"
    /\ agentStatus.text = "Agent Error."

\* C16: a stored user_id is never changed, user_id is written only when
\* none is stored, and the storage callback of every session puts the stored
\* user_id into the User ID field
C16_StoredIdKept ==
    [][/\ storage # NoId => storage' = storage
       /\ (popup = "loading" /\ popup' = "ready") =>
             /\ storage' # NoId
             /\ userIdInput' = storage']_vars

\* the second session has loaded the identifier the first one generated
C16_Witness ==
    /\ sessions = 2
    /\ popup = "ready"
    /\ storage = Uuid(1)
    /\ userIdInput = Uuid(1)

\* C17: while the listener is inside a batch (from the first selector lookup
\* to the sending of the response) every step belongs to that batch: the
\* request handled stays the same and the only response sent is the batch's
\* own, after its last task (so no get_html is answered from a partially
\* applied batch)
C17_ApplyAtomic ==
    [][pc # "idle" =>
          /\ request' = request
          /\ response' # response =>
                /\ response'.kind = "done"
                /\ idx = request.data.length
                /\ pc' = "idle"]_vars

\* a batch of two tasks between its first task (applied) and its second
C17_Witness ==
    /\ request.action = "execute_actions"
    /\ request.data.length = 2
    /\ pc = "forEach"
    /\ idx = 1
    /\ resolved = 1

\* task i of a run was applied and counted
AppliedIn(r, i) == i <= Len(r.els) /\ r.els[i] # null

\* the selector of a task resolves in document d
Resolves(d, t) ==
    t.selector \notin InvalidSelectors /\ querySelector(d, t.selector) # null

\* what a task writes to target e whatever e held before: the fields on which
\* the write to e and the write to e with its fields changed agree
Written(d, e, t) ==
    LET a == Apply(d, e, t)[e]
        b == Apply([d EXCEPT ![e].checked = ~@,
                             ![e].value = IF @ = "" THEN "1" ELSE ""], e, t)[e]
    IN [checked |-> IF a.checked = b.checked THEN <<a.checked>> ELSE <<>>,
        value |-> IF a.value = b.value THEN <<a.value>> ELSE <<>>]

\* what task i of a run on batch ts wrote, nothing when it was not applied
WrittenIn(r, ts, i) ==
    IF AppliedIn(r, i) THEN <<r.els[i], Written(doc, r.els[i], ts[i])>> ELSE <<>>

\* C18: the actions of a batch are independent: an action is applied and
\* counted exactly when its selector resolves, whatever the other actions
\* are, and the batch in reverse order gives the same count and has every
\* action applied or not, and writing, as before
C18_ActionsIndependent ==
    (forward.ran /\ backward.ran) =>
        /\ forward.count = backward.count
        /\ \A i \in 1..Len(batch) :
              /\ AppliedIn(forward, i) = Resolves(doc, batch[i])
              /\ AppliedIn(forward, i) = AppliedIn(backward, Len(batch) + 1 - i)
              /\ WrittenIn(forward, batch, i)
                    = WrittenIn(backward, Reverse(batch), Len(batch) + 1 - i)

\* C19: whenever the popup sends a request to the server (upload_cv at an
\* Upload click, process_page in a flow) its user_id is the one in the
\* storage, whatever the order of the storage callback, the user's edits and
\* the clicks
C19_SentIdIsStoredId ==
    [][/\ Len(uploading') > Len(uploading) =>
             uploading'[Len(uploading')] = storage
       /\ \A i \in 1..Len(flows) :
             (i <= Len(flows') /\ flows'[i].fetches > flows[i].fetches) =>
                 flows[i].userId = storage]_vars

\* C20: generateUUID returns 36 characters: '-' at positions 9, 14, 19 and
\* 24, lowercase hexadecimal digits elsewhere, '4' at position 15 and one of
\* 8, 9, a, b at position 20, whatever the random values
C20_UuidLayout ==
    uuid # <<>> =>
        /\ Len(uuid) = 36
        /\ \A i \in 1..36 :
              IF i \in {9, 14, 19, 24} THEN uuid[i] = "-"
              ELSE uuid[i] \in {"0", "1", "2", "3", "4", "5", "6", "7", "8", "9",
                                "a", "b", "c", "d", "e", "f"}
        /\ uuid[15] = "4"
        /\ uuid[20] \in {"8", "9", "a", "b"}

\* a call whose random value at the variant digit was 15 returned b there
C20_Witness ==
    /\ Len(uuid) = 36
    /\ Random16(seed, stride, 16) = 15
    /\ uuid[20] = "b"
    /\ uuid[1] = "f"

====
